---- MODULE Spec2Model ----
(***************************************************************************)
(* Emotion Analyzer (src/app.py): a Streamlit script.  Every user action   *)
(* (editing the text area, toggling the theme, pressing Analyze) reruns    *)
(* the whole script once; st.session_state.history is the only state that  *)
(* survives from one run to the next.                                      *)
(*                                                                         *)
(* Texts are tuples of characters.  A classifier score s stands for the    *)
(* probability s / 100000; a strength v stands for v / 100 percent.  A     *)
(* timestamp is the tuple <<dd, mm, yyyy, HH, MM, SS>> in the field order  *)
(* of the format string "%d-%m-%Y %H:%M:%S".                               *)
(***************************************************************************)
EXTENDS Integers, Sequences, FiniteSets, TLC

VARIABLES
    history,    \* st.session_state.history: the list of stored records
    theme,      \* value of the "Dark Theme" toggle in the last run
    user_text,  \* content of the text area in the last run
    analyze,    \* value of the Analyze button in the last run
    now,        \* last reading of the wall clock, in seconds since 01-01-2023 00:00:00
    called,     \* whether the last run invoked emotion_model
    output,     \* what emotion_model did in the last run (<<>>: not invoked)
    label,      \* label returned by predict_emotion in the last run ("" if none)
    screen,     \* what the last run rendered
    inserted    \* history variable: every record ever appended, in order

vars == <<history, theme, user_text, analyze, now, called, output, label, screen, inserted>>

----------------------------------------------------------------------------
(* Bounds of the model *)

MaxHistory == 2
LongHistory == 6
MaxTicks == 2
LongTicks == 2

----------------------------------------------------------------------------
(* Inputs *)

Whitespace == {" ", "\t", "\n"}

Texts == { <<>>, <<" ", "\n">>, <<"\t", "o", " ", "k", " ">> }

LongTexts == { <<>>, <<"o", "k">> }

ClassifierLabels == {"joy", "sadness", "disgust"}

ScoreValues == {33333, 66667}

Entries == [label : ClassifierLabels, score : ScoreValues]

\* Per-label score lists the pipeline can return: one entry per label.
Distributions ==
    {<<a>> : a \in Entries}
    \cup {p \in Entries \X Entries : p[1].label # p[2].label}

LongDistributions ==
    { <<[label |-> "joy", score |-> 66667]>>,
      <<[label |-> "sadness", score |-> 33333], [label |-> "disgust", score |-> 66667]>>,
      <<[label |-> "sadness", score |-> 33333], [label |-> "joy", score |-> 33333]>> }

\* emotion_model(text) either raises or returns [dist].
Outcomes ==
    {[raised |-> TRUE, dist |-> <<>>]} \cup {[raised |-> FALSE, dist |-> d] : d \in Distributions}

LongOutcomes ==
    {[raised |-> TRUE, dist |-> <<>>]} \cup {[raised |-> FALSE, dist |-> d] : d \in LongDistributions}

----------------------------------------------------------------------------
(* emotion_map *)

emotion_map ==
    [l \in {"sadness", "joy", "anger", "fear", "surprise", "neutral"} |->
        CASE l = "sadness"  -> [emotion |-> "Sadness",   interpretation |-> "sadness, heaviness or emotional struggle"]
          [] l = "joy"      -> [emotion |-> "Happiness", interpretation |-> "joy, positivity and an uplifting tone"]
          [] l = "anger"    -> [emotion |-> "Anger",     interpretation |-> "frustration, irritation or strong negative feelings"]
          [] l = "fear"     -> [emotion |-> "Fear",      interpretation |-> "anxiety, worry or emotionally tense feelings"]
          [] l = "surprise" -> [emotion |-> "Surprise",  interpretation |-> "amazement, shock or something unexpected"]
          [] l = "neutral"  -> [emotion |-> "Neutral",   interpretation |-> "balanced, no strong emotions"]]

----------------------------------------------------------------------------
(* str.strip() *)

RECURSIVE LStrip(_)
LStrip(t) ==
    IF t # <<>> /\ Head(t) \in Whitespace THEN LStrip(Tail(t)) ELSE t

RECURSIVE RStrip(_)
RStrip(t) ==
    IF t # <<>> /\ t[Len(t)] \in Whitespace THEN RStrip(SubSeq(t, 1, Len(t) - 1)) ELSE t

\* Bug variant: the text is compared with "" as typed.
StripNothing(t) == t

Strip(t) == RStrip(LStrip(t))

----------------------------------------------------------------------------
(* datetime.now().strftime("%d-%m-%Y %H:%M:%S") *)

EpochYear == 2023

SecondsPerDay == 24 * 60 * 60

\* One second before the year turns: 31-12-2023 23:59:59.
StartInstant == 365 * SecondsPerDay - 1

IsLeap(y) == (y % 4 = 0 /\ y % 100 # 0) \/ y % 400 = 0

DaysInYear(y) == IF IsLeap(y) THEN 366 ELSE 365

DaysInMonth(m, y) ==
    IF m = 2 THEN (IF IsLeap(y) THEN 29 ELSE 28)
    ELSE IF m \in {4, 6, 9, 11} THEN 30 ELSE 31

RECURSIVE YearOf(_, _)
YearOf(days, y) ==
    IF days >= DaysInYear(y) THEN YearOf(days - DaysInYear(y), y + 1) ELSE <<y, days>>

RECURSIVE MonthOf(_, _, _)
MonthOf(days, m, y) ==
    IF days >= DaysInMonth(m, y) THEN MonthOf(days - DaysInMonth(m, y), m + 1, y)
    ELSE <<m, days + 1>>

strftime(t) ==
    LET yd == YearOf(t \div SecondsPerDay, EpochYear)
        md == MonthOf(yd[2], 1, yd[1])
        s  == t % SecondsPerDay
    IN  <<md[2], md[1], yd[1], s \div 3600, (s % 3600) \div 60, s % 60>>

----------------------------------------------------------------------------
(* predict_emotion *)

\* Position of x in a list sorted by descending score: after every entry
\* whose score is at least x's (sorted() is stable, also under reverse=True).
RECURSIVE InsertDesc(_, _)
InsertDesc(sorted, x) ==
    IF sorted = <<>> THEN <<x>>
    ELSE IF Head(sorted).score >= x.score
         THEN <<Head(sorted)>> \o InsertDesc(Tail(sorted), x)
         ELSE <<x>> \o sorted

RECURSIVE SortedDesc(_)
SortedDesc(dist) ==
    IF dist = <<>> THEN <<>>
    ELSE InsertDesc(SortedDesc(SubSeq(dist, 1, Len(dist) - 1)), dist[Len(dist)])

\* Bug variant: the list is taken as returned, not sorted.
predict_emotion_unsorted(dist) ==
    [label |-> dist[1].label, scores |-> dist]

predict_emotion(dist) ==
    LET scores == SortedDesc(dist)
    IN  [label |-> scores[1].label, scores |-> scores]

\* {s["label"]: s["score"] for s in all_scores}[l]: the last entry wins.
ScoreDict(all_scores, l) ==
    LET idx == {i \in 1..Len(all_scores) : all_scores[i].label = l}
    IN  all_scores[CHOOSE i \in idx : \A j \in idx : j <= i].score

\* round(score * 100, 2), in hundredths of a percent (ties to even).
Round2(s) ==
    LET q == s \div 10
        r == s % 10
    IN  IF r > 5 \/ (r = 5 /\ q % 2 = 1) THEN q + 1 ELSE q

----------------------------------------------------------------------------
(* The history list *)

\* Bug variant: the newest record overwrites the last one stored.
RecordOverwrite(h, rec) ==
    IF h = <<>> THEN <<rec>> ELSE [h EXCEPT ![Len(h)] = rec]

\* Bug variant: the record is inserted at the head.
RecordAtHead(h, rec) == <<rec>> \o h

\* Bug variant: the list is cut to the last 3 records after the append.
RecordEvicting(h, rec) ==
    LET g == Append(h, rec)
    IN  IF Len(g) > 3 THEN SubSeq(g, Len(g) - 2, Len(g)) ELSE g

\* st.session_state.history.append({...})
Record(h, rec) == Append(h, rec)

HistoryShown == 5

Reversed(s) == [i \in 1..Len(s) |-> s[Len(s) - i + 1]]

\* h[-5:]
LastShown(h) ==
    IF Len(h) > HistoryShown THEN SubSeq(h, Len(h) - HistoryShown + 1, Len(h)) ELSE h

\* Bug variant: the whole list is displayed.
HistoryViewAll(h) == Reversed(h)

\* Bug variant: the first five records are displayed.
HistoryViewOldest(h) ==
    Reversed(IF Len(h) > HistoryShown THEN SubSeq(h, 1, HistoryShown) ELSE h)

\* reversed(st.session_state.history[-5:])
HistoryView(h) == Reversed(LastShown(h))

\* The "Analysis History" section, the last thing the script renders.
RenderHistory(h) ==
    [section |-> Len(h) > 0, entries |-> IF Len(h) > 0 THEN HistoryView(h) ELSE <<>>]

NoHistorySection == [section |-> FALSE, entries |-> <<>>]

Screen(warning, error, card, report, hist) ==
    [warning |-> warning, error |-> error, card |-> card, report |-> report,
     section |-> hist.section, entries |-> hist.entries]

----------------------------------------------------------------------------
(* One run of the script per user action *)

Init ==
    /\ history = <<>>
    /\ inserted = <<>>
    /\ theme = FALSE
    /\ user_text = <<>>
    /\ analyze = FALSE
    /\ now = StartInstant
    /\ called = FALSE
    /\ output = <<>>
    /\ label = ""
    /\ screen = Screen(FALSE, "none", <<>>, <<>>, NoHistorySection)

\* datetime.now(): dt seconds after the previous reading of the clock.
Elapse(dt, maxTicks) ==
    /\ now + dt <= StartInstant + maxTicks
    /\ now' = now + dt

\* A run in which the button is not pressed: only the history is rendered.
RunWithoutAnalyze ==
    /\ analyze' = FALSE
    /\ called' = FALSE
    /\ output' = <<>>
    /\ label' = ""
    /\ screen' = Screen(FALSE, "none", <<>>, <<>>, RenderHistory(history))
    /\ UNCHANGED <<history, inserted>>

EditText(text) ==
    /\ text # user_text
    /\ user_text' = text
    /\ UNCHANGED <<theme, now>>
    /\ RunWithoutAnalyze

ToggleTheme ==
    /\ theme' = ~theme
    /\ UNCHANGED <<user_text, now>>
    /\ RunWithoutAnalyze

\* Analyze pressed, user_text.strip() == "": st.warning, nothing else.
RejectEmpty ==
    /\ Strip(user_text) = <<>>
    /\ analyze' = TRUE
    /\ called' = FALSE
    /\ output' = <<>>
    /\ label' = ""
    /\ screen' = Screen(TRUE, "none", <<>>, <<>>, RenderHistory(history))
    /\ UNCHANGED <<history, inserted, theme, user_text, now>>

\* Analyze pressed, emotion_model(text) raises: the exception ends the run.
ClassifierRaises(o) ==
    /\ Strip(user_text) # <<>>
    /\ o.raised
    /\ analyze' = TRUE
    /\ called' = TRUE
    /\ output' = <<o>>
    /\ label' = ""
    /\ screen' = Screen(FALSE, "Exception", <<>>, <<>>, NoHistorySection)
    /\ UNCHANGED <<history, inserted, theme, user_text, now>>

\* Analyze pressed, the top label is no key of emotion_map: KeyError at
\* emotion_map[label] ends the run before the append.
LabelUnmapped(o) ==
    /\ Strip(user_text) # <<>>
    /\ ~o.raised
    /\ predict_emotion(o.dist).label \notin DOMAIN emotion_map
    /\ analyze' = TRUE
    /\ called' = TRUE
    /\ output' = <<o>>
    /\ label' = predict_emotion(o.dist).label
    /\ screen' = Screen(FALSE, "KeyError", <<>>, <<>>, NoHistorySection)
    /\ UNCHANGED <<history, inserted, theme, user_text, now>>

\* Analyze pressed and the analysis completes: append, result card, report,
\* then the history section.
RecordAnalysis(o, dt, maxTicks, maxHistory) ==
    /\ Strip(user_text) # <<>>
    /\ ~o.raised
    /\ predict_emotion(o.dist).label \in DOMAIN emotion_map
    /\ Len(history) < maxHistory
    /\ Elapse(dt, maxTicks)
    /\ LET p == predict_emotion(o.dist)
           emotion == emotion_map[p.label].emotion
           interpretation == emotion_map[p.label].interpretation
           sentiment_score == Round2(ScoreDict(p.scores, p.label))
           rec == [text |-> user_text, emotion |-> emotion,
                   score |-> sentiment_score, time |-> strftime(now')]
       IN  /\ analyze' = TRUE
           /\ called' = TRUE
           /\ output' = <<o>>
           /\ label' = p.label
           /\ history' = Record(history, rec)
           /\ inserted' = Append(inserted, rec)
           /\ screen' = Screen(FALSE, "none",
                               <<[emotion |-> emotion, interpretation |-> interpretation,
                                  strength |-> sentiment_score]>>,
                               <<[text |-> user_text, emotion |-> emotion,
                                  strength |-> sentiment_score,
                                  interpretation |-> interpretation]>>,
                               RenderHistory(history'))
    /\ UNCHANGED <<theme, user_text>>

Next ==
    \/ \E text \in Texts : EditText(text)
    \/ ToggleTheme
    \/ RejectEmpty
    \/ \E o \in Outcomes : ClassifierRaises(o)
    \/ \E o \in Outcomes : LabelUnmapped(o)
    \/ \E o \in Outcomes, dt \in 0..1 : RecordAnalysis(o, dt, MaxTicks, MaxHistory)

Spec == Init /\ [][Next]_vars

\* The same program under fewer inputs and a longer history.
NextLong ==
    \/ \E text \in LongTexts : EditText(text)
    \/ ToggleTheme
    \/ RejectEmpty
    \/ \E o \in LongOutcomes : ClassifierRaises(o)
    \/ \E o \in LongOutcomes : LabelUnmapped(o)
    \/ \E o \in LongOutcomes, dt \in 0..1 : RecordAnalysis(o, dt, LongTicks, LongHistory)

SpecLong == Init /\ [][NextLong]_vars

----------------------------------------------------------------------------
(* Vocabulary of the properties *)

Last(s) == s[Len(s)]

Min(a, b) == IF a <= b THEN a ELSE b

\* Zero-length, or whitespace only.
IsBlank(t) == \A i \in 1..Len(t) : t[i] \in Whitespace

\* a can be obtained from b by deleting elements of b.
RECURSIVE IsSubseq(_, _)
IsSubseq(a, b) ==
    IF a = <<>> THEN TRUE
    ELSE IF b = <<>> THEN FALSE
    ELSE IF Head(a) = Head(b) THEN IsSubseq(Tail(a), Tail(b))
    ELSE IsSubseq(a, Tail(b))

RECURSIVE LexLeq(_, _)
LexLeq(a, b) ==
    IF a = <<>> THEN TRUE
    ELSE IF Head(a) # Head(b) THEN Head(a) < Head(b)
    ELSE LexLeq(Tail(a), Tail(b))

\* Timestamp a is not later than timestamp b: year, month, day, then time of day.
TimeLeq(a, b) ==
    LexLeq(<<a[3], a[2], a[1], a[4], a[5], a[6]>>, <<b[3], b[2], b[1], b[4], b[5], b[6]>>)

\* The last run pressed Analyze on a non-blank text.
AnalyzedText == analyze /\ ~IsBlank(user_text)

\* The classifier call of the last run raised, or its top label has no emotion.
ClassifierFailed ==
    /\ output # <<>>
    /\ (output[1].raised \/ label \notin DOMAIN emotion_map)

----------------------------------------------------------------------------
(* C1 *)

\* C1, as claimed: after each recording the number of records in the history
\* is at most the capacity.  The code configures no capacity; the one size
\* limit it has, the 5 of the display slice, is taken for it.
C1_BoundedSize == Len(history) <= HistoryShown

\* C1, amended: the history holds every record made so far (as many records
\* as recordings, no capacity); what is bounded is the history section on
\* screen, at 5 entries.
C1_DisplayBounded ==
    /\ Len(history) = Len(inserted)
    /\ Len(screen.entries) <= HistoryShown

C1_Witness ==
    /\ Len(history) > HistoryShown
    /\ screen.section
    /\ Len(screen.entries) = HistoryShown

----------------------------------------------------------------------------
(* C2 *)

\* C2, as claimed: with capacity 3, after four successive recordings A, B, C,
\* D the history retains exactly B, C, D (the oldest, A, dropped), latest D.
C2_EvictsOldest ==
    Len(inserted) = 4 =>
        /\ Len(history) = 3
        /\ \A i \in 1..3 : history[i] = inserted[i + 1]

\* C2, amended: a recording never drops a record: the history is exactly the
\* records made so far, in insertion order (after A, B, C, D it is A, B, C, D).
C2_NothingDropped ==
    /\ Len(history) = Len(inserted)
    /\ \A i \in 1..Len(inserted) : history[i] = inserted[i]

C2_Witness ==
    /\ Len(inserted) = 4
    /\ history[1] # history[2]
    /\ analyze

----------------------------------------------------------------------------
(* C3 *)

\* C3, as claimed: the most recently recorded analysis is the first element
\* of the stored history.
C3_NewestFirst ==
    history # <<>> => history[1] = Last(inserted)

\* C3, amended: the most recently recorded analysis is the last element of
\* the stored history (the history is kept oldest-first).
C3_NewestLast ==
    history # <<>> => history[Len(history)] = Last(inserted)

C3_Witness ==
    /\ Len(history) >= 2
    /\ history[1] # history[2]

----------------------------------------------------------------------------
(* C4 *)

\* C4: a press of Analyze on a zero-length or whitespace-only text shows the
\* warning, does not invoke the classifier, shows no result, creates no
\* record and leaves the history as it was.
C4_EmptyRejected ==
    [][(analyze' /\ IsBlank(user_text')) =>
            /\ screen'.warning
            /\ ~called'
            /\ screen'.card = <<>>
            /\ screen'.error = "none"
            /\ history' = history
            /\ inserted' = inserted]_vars

C4_Witness ==
    /\ analyze
    /\ user_text # <<>>
    /\ IsBlank(user_text)
    /\ screen.warning
    /\ history # <<>>

----------------------------------------------------------------------------
(* C5 *)

\* C5, as claimed: when the classifier call for a non-blank text raises or
\* returns a top label that is no key of emotion_map, the run does not end
\* in an exception and a result (the sentinel) is displayed.
C5_FailureAbsorbed ==
    (AnalyzedText /\ ClassifierFailed) =>
        /\ screen.error = "none"
        /\ screen.card # <<>>

----------------------------------------------------------------------------
(* C6 *)

\* C6, as claimed: every press of Analyze on a non-blank text for which the
\* classifier returns a result, whatever the result, creates exactly one
\* record holding that text, and no other step creates a record.
C6_OneRecordPerAnalysis ==
    [][IF analyze' /\ ~IsBlank(user_text') /\ ~output'[1].raised
       THEN /\ Len(inserted') = Len(inserted) + 1
            /\ SubSeq(inserted', 1, Len(inserted)) = inserted
            /\ Last(inserted').text = user_text'
       ELSE inserted' = inserted]_vars

----------------------------------------------------------------------------
(* C7 *)

\* C7: no step changes a record already in the history or the relative order
\* of the records in it, and a step that records nothing leaves the history
\* identical.
C7_RecordsImmutable ==
    [][/\ IsSubseq(history, history')
       /\ (inserted' = inserted => history' = history)]_vars

C7_Witness ==
    /\ Len(history) >= 2
    /\ history[1] # history[2]
    /\ screen.error = "KeyError"

----------------------------------------------------------------------------
(* C8 *)

----------------------------------------------------------------------------
(* C9 *)

\* C9: the history section is rendered only when the history is non-empty;
\* when rendered it lists min(5, history length) entries, the k-th entry
\* being the k-th most recently recorded analysis; a run on an empty history
\* renders no section and raises nothing unless Analyze was pressed.
C9_HistoryDisplay ==
    /\ screen.section => history # <<>>
    /\ screen.section =>
        /\ Len(screen.entries) = Min(5, Len(history))
        /\ \A k \in 1..Len(screen.entries) :
              screen.entries[k] = inserted[Len(inserted) - k + 1]
    /\ ~screen.section => screen.entries = <<>>
    /\ (history = <<>> /\ ~AnalyzedText) => (screen.error = "none" /\ ~screen.section)

C9_Witness ==
    /\ screen.section
    /\ Len(history) > 5
    /\ history[1] # Last(history)

----------------------------------------------------------------------------
(* C10 *)

====
